---- MODULE Spec2Model ----
(***************************************************************************)
(* Model of src/floods/flood_aa_preseason.py: the flood verification and  *)
(* trigger selection script.  The script is one sequential batch run:      *)
(*   section 2  resolve observed / forecast events per forecast file,      *)
(*              lead time and station                                      *)
(*   section 3  pivot the ensemble members into columns, compute the       *)
(*              probability of detection, sweep the threshold grid, cut    *)
(*              lead times into categories, group, score every group       *)
(*   section 4  choose the best trigger per group and write the table.     *)
(* Rational numbers are pairs <<numerator, denominator>>; a denominator of *)
(* 0 stands for an undefined quotient (NaN / ZeroDivisionError).           *)
(***************************************************************************)
EXTENDS Integers, Sequences, FiniteSets, TLC

VARIABLES
    observed_data,      \* input: the observed csv, a sequence of rows
    ds,                 \* input: the forecast datasets, one per forecast file
    emptyGroups,        \* whether iterating the groupby yields unobserved (empty) groups
    pc,                 \* the stage the script is in
    error,              \* the uncaught exception that ended the run, or "none"
    fileIdx,            \* position of the forecast_file loop
    lead_time,          \* position of the lead_time loop
    stationIdx,         \* position of the station_info.iterrows() loop
    observed_period,    \* the observed row selected for the current lead time
    events,             \* the events list
    pivot_events_df,    \* pivoted events with the probability of detection
    metrics_df,         \* swept table (thresholds, then lead time category)
    grouped_dfs,        \* group key -> group rows, then group key -> metrics
    best_trigger,       \* group key -> selected column or None
    results_df          \* the rows written to the triggers csv

vars == <<observed_data, ds, emptyGroups, pc, error, fileIdx, lead_time, stationIdx,
          observed_period, events, pivot_events_df, metrics_df, grouped_dfs,
          best_trigger, results_df>>

-----------------------------------------------------------------------------
(* Bounds of the input data the model explores.                            *)

MaxStations == 2
MaxFiles == 1
MaxSeed == 1
MaxGapDate == 1

-----------------------------------------------------------------------------
(* Program constants.                                                      *)

\* lead_times = list(range(0,46))
NumLeadTimes == 46
lead_times == 0 .. (NumLeadTimes - 1)

\* the divisor of the probability of detection
EnsembleDivisor == 11

\* ensemble_members: the dataset variables dis24_0 .. dis24_10, by their number
ensemble_members == 0 .. 10

\* the keys of the thresholds dict, in insertion order
Severities == <<"bankfull", "moderate", "severe">>

\* thresholds = np.arange(0.01, 1, 0.01): 99 values, in hundredths
NumThresholds == 99
thresholds == [j \in 1 .. NumThresholds |-> j]

\* best_trigger[key] = None
None == "None"

-----------------------------------------------------------------------------
(* Input data.  A value of the observed csv is a record: isnull marks NaN. *)

Null == [isnull |-> TRUE, v |-> 0]
Val(x) == [isnull |-> FALSE, v |-> x]

StationName(i) == "station_" \o ToString(i)

\* station_info: one metadata row per station; the severity thresholds of the
\* observed scale and of the forecast (glofas) scale
station_info ==
    [i \in 1 .. MaxStations |->
        [name |-> StationName(i),
         lisflood |-> i,
         obs |-> [bankfull |-> 1, moderate |-> 2, severe |-> 3],
         glofas |-> [bankfull |-> 8, moderate |-> 10, severe |-> 12]]]

StationNames == {station_info[i].name : i \in 1 .. MaxStations}

\* forecast_files, by index; the issue date (first time step) of each file
forecast_files == 1 .. MaxFiles
IssueDate(f) == 7 * (f - 1)
LastDate == IssueDate(MaxFiles) + NumLeadTimes - 1

\* the family of observed series and forecasts the model draws its input from
ObsRaw(seed, i, d) == (d * (seed + 2) + 3 * (i - 1) + (d \div 6) * seed) % 5
ObsCell(nanMod, seed, i, d) ==
    IF nanMod > 0 /\ (d + i) % nanMod = 0 THEN Null ELSE Val(ObsRaw(seed, i, d))
ObservedTable(cols, gap, nanMod, seed) ==
    LET dates == SelectSeq([k \in 1 .. (LastDate + 1) |-> k - 1], LAMBDA d : d # gap)
    IN  [k \in 1 .. Len(dates) |->
            [date |-> dates[k],
             vals |-> [c \in cols |->
                          LET i == CHOOSE n \in 1 .. MaxStations : station_info[n].name = c
                          IN  ObsCell(nanMod, seed, i, dates[k])]]]
FcBase(seed, f, i, d) ==
    2 * ObsRaw(seed, i, d) + ((d * 5 + f + (seed + 1) * (d \div 4)) % 9) - 2
ForecastFile(seed, f) ==
    [time0 |-> IssueDate(f),
     vals |-> [m \in ensemble_members |->
                 [i \in 1 .. MaxStations |->
                    [d \in IssueDate(f) .. (IssueDate(f) + NumLeadTimes - 1) |->
                        FcBase(seed, f, i, d) + (IF seed % 2 = 0 THEN m ELSE 10 - m)]]]]

GapChoices == {-1} \cup (0 .. MaxGapDate)
NanChoices == {0, 1, 3}

-----------------------------------------------------------------------------
(* Section 2: process observations and forecasts, define events.           *)

Init ==
    /\ \E cols \in SUBSET StationNames, gap \in GapChoices,
          nanMod \in NanChoices, seed \in 0 .. MaxSeed :
          /\ observed_data = ObservedTable(cols, gap, nanMod, seed)
          /\ ds = [f \in forecast_files |-> ForecastFile(seed, f)]
    /\ emptyGroups \in BOOLEAN
    /\ pc = "lead"
    /\ error = "none"
    /\ fileIdx = 1
    /\ lead_time = 0
    /\ stationIdx = 1
    /\ observed_period = <<>>
    /\ events = <<>>
    /\ pivot_events_df = {}
    /\ metrics_df = {}
    /\ grouped_dfs = <<>>
    /\ best_trigger = <<>>
    /\ results_df = {}

\* forecast_end_date = forecast_start_date + pd.DateOffset(days=lead_time)
forecast_end_date == ds[fileIdx].time0 + lead_time

\* observed_data[observed_data["date"] == forecast_end_date]
MatchingRows == SelectSeq(observed_data, LAMBDA r : r.date = forecast_end_date)

\* Lines 76-83: the head of the lead_time loop body.  .iloc[-1] takes the last
\* matching row and raises IndexError when no row matches.
LookupObservedPeriod ==
    /\ pc = "lead" /\ error = "none"
    /\ IF MatchingRows = <<>>
       THEN /\ error' = "IndexError"
            /\ UNCHANGED <<pc, observed_period, stationIdx>>
       ELSE /\ observed_period' = MatchingRows[Len(MatchingRows)]
            /\ stationIdx' = 1
            /\ pc' = "station"
            /\ error' = error
    /\ UNCHANGED <<observed_data, ds, emptyGroups, fileIdx, lead_time, events,
                   pivot_events_df, metrics_df, grouped_dfs, best_trigger, results_df>>

\* The events appended for one station: observed_event and forecast_event for
\* every ensemble member and severity.  The records of one (file, lead time,
\* station, severity) differ only in the member and its forecast event, and are
\* kept as one record whose "forecast event" maps each member to its flag.
StationEvents(station_row, observed_values) ==
    [s \in 1 .. Len(Severities) |->
        LET severity == Severities[s]
        IN  [file |-> fileIdx,
             lead |-> lead_time,
             station |-> station_row.name,
             date |-> forecast_end_date,
             threshold |-> severity,
             observed_event |-> observed_values.v > station_row.obs[severity],
             forecast_event |->
                [m \in ensemble_members |->
                    ds[fileIdx].vals[m][station_row.lisflood][forecast_end_date]
                        > station_row.glofas[severity]]]]

\* where the loops go after the body for one station ends
AdvanceLoops ==
    IF stationIdx < MaxStations
    THEN /\ stationIdx' = stationIdx + 1
         /\ UNCHANGED <<pc, lead_time, fileIdx>>
    ELSE /\ stationIdx' = 1
         /\ IF lead_time + 1 \in lead_times
            THEN /\ lead_time' = lead_time + 1
                 /\ pc' = "lead"
                 /\ UNCHANGED fileIdx
            ELSE IF fileIdx < MaxFiles
            THEN /\ lead_time' = 0
                 /\ fileIdx' = fileIdx + 1
                 /\ pc' = "lead"
            ELSE /\ pc' = "pivot"
                 /\ UNCHANGED <<lead_time, fileIdx>>

\* observed_period[station_name]: the value of the station's column, or
\* KeyError (found = FALSE) when the row has no such column
StationLookupSwallowed(period, station_name) ==
    IF station_name \in DOMAIN period.vals
    THEN [found |-> TRUE, value |-> period.vals[station_name]]
    ELSE [found |-> TRUE, value |-> Null]
StationLookup(period, station_name) ==
    IF station_name \in DOMAIN period.vals
    THEN [found |-> TRUE, value |-> period.vals[station_name]]
    ELSE [found |-> FALSE, value |-> Null]

\* Lines 86-128: the body of the station loop for one station.  An uncaught
\* KeyError ends the run; a NaN observation skips the station.
ResolveStation ==
    /\ pc = "station" /\ error = "none"
    /\ LET station_row == station_info[stationIdx]
           station_name == station_row.name
           observed_values == StationLookup(observed_period, station_name)
       IN  IF ~observed_values.found
           THEN /\ error' = "KeyError"
                /\ UNCHANGED <<pc, lead_time, fileIdx, stationIdx, events>>
           ELSE /\ error' = error
                /\ events' = IF observed_values.value.isnull
                             THEN events
                             ELSE events \o StationEvents(station_row, observed_values.value)
                /\ AdvanceLoops
    /\ UNCHANGED <<observed_data, ds, emptyGroups, observed_period,
                   pivot_events_df, metrics_df, grouped_dfs, best_trigger, results_df>>

-----------------------------------------------------------------------------
(* Section 3: pivot, probability of detection, threshold sweep.            *)

\* Rational arithmetic on <<numerator, denominator>> pairs.
Zero == <<0, 1>>
Rat(n, d) == <<n, d>>
IsDefined(a) == a[2] # 0
RatGeq(a, b) == IsDefined(a) /\ IsDefined(b) /\ a[1] * b[2] >= b[1] * a[2]
RatLeq(a, b) == IsDefined(a) /\ IsDefined(b) /\ a[1] * b[2] <= b[1] * a[2]
RatGt(a, b) == IsDefined(a) /\ IsDefined(b) /\ a[1] * b[2] > b[1] * a[2]
RatEq(a, b) == IsDefined(a) /\ IsDefined(b) /\ a[1] * b[2] = b[1] * a[2]
RatAdd(a, b) == <<a[1] * b[2] + b[1] * a[2], a[2] * b[2]>>
RatSub(a, b) == <<a[1] * b[2] - b[1] * a[2], a[2] * b[2]>>
RatMul(a, b) == <<a[1] * b[1], a[2] * b[2]>>
Half == <<1, 2>>

\* python slices seq[a:b] and seq[a:]
PySlice(seq, a, b) == SubSeq(seq, a + 1, IF b < Len(seq) THEN b ELSE Len(seq))
PySliceFrom(seq, a) == SubSeq(seq, a + 1, Len(seq))

\* the decimal digits of a natural number, most significant first
RECURSIVE Digits(_)
Digits(n) == IF n < 10 THEN <<n>> ELSE Append(Digits(n \div 10), n % 10)

\* string order of two digit strings (the order of "dis24_<a>" and "dis24_<b>")
RECURSIVE LexLess(_, _)
LexLess(a, b) ==
    IF a = <<>> THEN b # <<>>
    ELSE IF b = <<>> THEN FALSE
    ELSE IF Head(a) # Head(b) THEN Head(a) < Head(b)
    ELSE LexLess(Tail(a), Tail(b))

MemberName(m) == "dis24_" \o ToString(m)

\* the ensemble member columns of the pivot, sorted as strings
SortedMembers ==
    [k \in 1 .. Cardinality(ensemble_members) |->
        CHOOSE m \in ensemble_members :
            Cardinality({o \in ensemble_members : LexLess(Digits(o), Digits(m))}) = k - 1]

\* the index of pivot_table, which reset_index turns into the leading columns
PivotIndex == <<"forecast file", "lead time", "station name", "forecasted date",
                "threshold", "observed event">>

\* pivot_events_df.columns after reset_index
PivotColumns == PivotIndex \o [k \in 1 .. Len(SortedMembers) |-> MemberName(SortedMembers[k])]

Range(seq) == {seq[k] : k \in 1 .. Len(seq)}

\* one row of the pivot table: the index values, then the mean forecast event
\* of each member (one record per cell, so the flag itself as 0 or 1)
PivotRow(e) ==
    [c \in Range(PivotColumns) |->
        CASE c = "forecast file" -> e.file
          [] c = "lead time" -> e.lead
          [] c = "station name" -> e.station
          [] c = "forecasted date" -> e.date
          [] c = "threshold" -> e.threshold
          [] c = "observed event" -> e.observed_event
          [] OTHER -> LET m == CHOOSE n \in ensemble_members : MemberName(n) = c
                      IN  IF e.forecast_event[m] THEN 1 ELSE 0]

\* ensemble_member_columns = pivot_events_df.columns[5:16]
ensemble_member_columns == PySlice(PivotColumns, 5, 16)

\* the value of a cell as sum(axis=1) adds it: a boolean counts as 0 or 1
Numeric(row, c) ==
    IF c = "observed event" THEN (IF row[c] THEN 1 ELSE 0) ELSE row[c]

RECURSIVE SumColumns(_, _)
SumColumns(row, cols) ==
    IF cols = <<>> THEN 0 ELSE Numeric(row, Head(cols)) + SumColumns(row, Tail(cols))

\* pivot_events_df[ensemble_member_columns].sum(axis=1) / 11
ProbabilityOfDetection(row) == Rat(SumColumns(row, ensemble_member_columns), EnsembleDivisor)

\* Lines 131-148.  pivot_table on the empty events frame raises KeyError.
Pivot ==
    /\ pc = "pivot" /\ error = "none"
    /\ IF events = <<>>
       THEN /\ error' = "KeyError"
            /\ UNCHANGED <<pc, pivot_events_df>>
       ELSE /\ pivot_events_df' =
                 {LET row == PivotRow(events[k])
                  IN  [c \in DOMAIN row \cup {"probability of detection"} |->
                          IF c = "probability of detection"
                          THEN ProbabilityOfDetection(row) ELSE row[c]]
                  : k \in 1 .. Len(events)}
            /\ pc' = "sweep"
            /\ error' = error
    /\ UNCHANGED <<observed_data, ds, emptyGroups, fileIdx, lead_time, stationIdx,
                   observed_period, events, metrics_df, grouped_dfs, best_trigger,
                   results_df>>

\* f'threshold_{threshold:.2f}' for the j-th value of the grid
ThresholdColumn(j) == "threshold_0." \o (IF j < 10 THEN "0" ELSE "") \o ToString(j)
ThresholdColumns == [j \in 1 .. NumThresholds |-> ThresholdColumn(thresholds[j])]

\* the position in the grid of the threshold a column is named after
ThresholdIndex ==
    [c \in Range(ThresholdColumns) |-> CHOOSE n \in 1 .. NumThresholds : ThresholdColumns[n] = c]

\* (probability of detection >= threshold).astype(int), threshold in hundredths
EventOccurrenceReversed(pod, threshold) ==
    IF RatLeq(pod, Rat(threshold, 100)) THEN 1 ELSE 0
EventOccurrence(pod, threshold) == IF RatGeq(pod, Rat(threshold, 100)) THEN 1 ELSE 0

\* the columns of metrics_df after the concat of line 165
IdColumns == <<"forecast file", "station name", "lead time", "forecasted date",
               "threshold", "observed event", "probability of detection">>
SweptColumns == IdColumns \o ThresholdColumns

\* Lines 150-168: one 0/1 column per threshold of the grid.
Sweep ==
    /\ pc = "sweep" /\ error = "none"
    /\ metrics_df' =
          {[c \in Range(SweptColumns) |->
               IF c \in Range(IdColumns) THEN row[c]
               ELSE EventOccurrence(row["probability of detection"],
                                    thresholds[ThresholdIndex[c]])]
           : row \in pivot_events_df}
    /\ pc' = "cut"
    /\ UNCHANGED <<observed_data, ds, emptyGroups, error, fileIdx, lead_time, stationIdx,
                   observed_period, events, pivot_events_df, grouped_dfs, best_trigger,
                   results_df>>

\* bins = [0, 5, 10, 15, 20, 25, 30, 35, 40, 46, float('inf')]: the finite
\* edges; the last bin is unbounded on the right
bins == <<0, 5, 10, 15, 20, 25, 30, 35, 40, 46>>
labels == <<"0-5", "6-10", "11-15", "16-20", "21-25", "26-30", "31-35", "36-40",
            "41-46", "0-46">>

\* pd.cut(x, bins=bins, labels=labels, right=False): the label of the bin
\* [bins[i], bins[i+1]) that holds x, NaN below the first edge
NaNCategory == "NaN"
Cut(x) ==
    IF x < bins[1] THEN NaNCategory
    ELSE LET i == CHOOSE k \in 1 .. Len(bins) :
                    /\ bins[k] <= x
                    /\ (k < Len(bins) => x < bins[k + 1])
         IN  labels[i]

MetricsColumns == SweptColumns \o <<"lead time category">>

\* Lines 170-175: the new last column 'lead time category'.
Categorize ==
    /\ pc = "cut" /\ error = "none"
    /\ metrics_df' =
          {[c \in Range(MetricsColumns) |->
               IF c = "lead time category" THEN Cut(row["lead time"]) ELSE row[c]]
           : row \in metrics_df}
    /\ pc' = "group"
    /\ UNCHANGED <<observed_data, ds, emptyGroups, error, fileIdx, lead_time, stationIdx,
                   observed_period, events, pivot_events_df, grouped_dfs, best_trigger,
                   results_df>>

\* the keys the iteration over the groupby yields.  'lead time category' is
\* categorical and observed=False: depending on the pandas release the
\* iteration yields only the observed combinations, or the full product with
\* the unobserved categories as empty groups (emptyGroups).
GroupKeys(df) ==
    IF emptyGroups
    THEN {<<s, l, t>> : s \in {r["station name"] : r \in df},
                        l \in Range(labels),
                        t \in {r["threshold"] : r \in df}}
    ELSE {<<r["station name"], r["lead time category"], r["threshold"]>> : r \in df}

GroupRows(df, key) ==
    {r \in df : /\ r["station name"] = key[1]
                /\ r["lead time category"] = key[2]
                /\ r["threshold"] = key[3]}

\* Lines 177-181: grouped_dfs = {name: group for name, group in grouped}
Group ==
    /\ pc = "group" /\ error = "none"
    /\ grouped_dfs' = [key \in GroupKeys(metrics_df) |-> GroupRows(metrics_df, key)]
    /\ pc' = "score"
    /\ UNCHANGED <<observed_data, ds, emptyGroups, error, fileIdx, lead_time, stationIdx,
                   observed_period, events, pivot_events_df, metrics_df, best_trigger,
                   results_df>>

\* df[column] == n for a scored column: the 0/1 threshold columns compare as
\* numbers; the categorical 'lead time category' equals no number
CellEqualsCategoryAsNumber(r, column, n) ==
    IF column = "lead time category" THEN n = 1 ELSE r[column] = n
CellEquals(r, column, n) ==
    IF column = "lead time category" THEN FALSE ELSE r[column] = n

\* df['observed event'] == n for the boolean column (True == 1, False == 0)
ObservedEquals(r, n) == r["observed event"] = (n = 1)

Count(df, column, o, f) ==
    Cardinality({r \in df : ObservedEquals(r, o) /\ CellEquals(r, column, f)})

\* the verification metrics of lines 203-212, from the contingency counts
HitRateUnguarded(hits, misses) == Rat(hits, hits + misses)
HitRate(hits, misses) ==
    IF hits + misses > 0 THEN Rat(hits, hits + misses) ELSE Zero
FalseAlarmRate(hits, false_alarms) ==
    IF hits + false_alarms > 0 THEN Rat(false_alarms, hits + false_alarms) ELSE Zero
Csi(hits, false_alarms, misses) ==
    IF hits + false_alarms + misses > 0
    THEN Rat(hits, hits + false_alarms + misses) ELSE Zero
PssFromFalseAlarmRate(hits, false_alarms, misses, correct_rejections) ==
    IF (hits + misses) * (false_alarms + correct_rejections) > 0
    THEN RatSub(Rat(hits, hits + misses),
                IF hits + false_alarms > 0
                THEN Rat(false_alarms, hits + false_alarms) ELSE Zero)
    ELSE Zero
Pss(hits, false_alarms, misses, correct_rejections) ==
    IF (hits + misses) * (false_alarms + correct_rejections) > 0
    THEN Rat(hits * correct_rejections - false_alarms * misses,
             (hits + misses) * (false_alarms + correct_rejections))
    ELSE Zero
Precision(hits, false_alarms) ==
    IF hits + false_alarms > 0 THEN Rat(hits, hits + false_alarms) ELSE Zero
F1(precision, recall) ==
    IF RatGt(RatAdd(precision, recall), Zero)
    THEN LET num == RatMul(Rat(2, 1), RatMul(precision, recall))
             den == RatAdd(precision, recall)
         IN  Rat(num[1] * den[2], num[2] * den[1])
    ELSE Zero

\* for column in df.columns[7:]
ScoredColumns == PySliceFrom(MetricsColumns, 7)

\* Lines 184-232: calculate_metrics(df), the metrics of every scored column.
calculate_metrics(df) ==
    [column \in Range(ScoredColumns) |->
        LET hits == Count(df, column, 1, 1)
            false_alarms == Count(df, column, 0, 1)
            misses == Count(df, column, 1, 0)
            correct_rejections == Count(df, column, 0, 0)
            hit_rate == HitRate(hits, misses)
        IN  [hits |-> hits,
             false_alarms |-> false_alarms,
             misses |-> misses,
             correct_rejections |-> correct_rejections,
             hit_rates |-> hit_rate,
             false_alarm_rates |-> FalseAlarmRate(hits, false_alarms),
             csi |-> Csi(hits, false_alarms, misses),
             pss |-> Pss(hits, false_alarms, misses, correct_rejections),
             f1 |-> F1(Precision(hits, false_alarms), hit_rate)]]

\* Lines 235-236: every group's dataframe is replaced by its metrics.
Score ==
    /\ pc = "score" /\ error = "none"
    /\ grouped_dfs' = [key \in DOMAIN grouped_dfs |-> calculate_metrics(grouped_dfs[key])]
    /\ pc' = "select"
    /\ UNCHANGED <<observed_data, ds, emptyGroups, error, fileIdx, lead_time, stationIdx,
                   observed_period, events, pivot_events_df, metrics_df, best_trigger,
                   results_df>>

-----------------------------------------------------------------------------
(* Section 4: choosing triggers.                                           *)

\* (df.loc['hit rates'] >= 0.5) & (df.loc['false alarm rates'] <= 0.5)
Feasible(m, column) ==
    /\ RatGeq(m[column].hit_rates, Half)
    /\ RatLeq(m[column].false_alarm_rates, Half)

\* df.columns[...]: the feasible columns, in column order
filtered_columns(m) == SelectSeq(ScoredColumns, LAMBDA column : Feasible(m, column))

\* Series.idxmax(): the label of the first occurrence of the maximum
IdxMaxLast(m, cols) ==
    LET k == CHOOSE i \in 1 .. Len(cols) :
                /\ \A j \in 1 .. Len(cols) : RatGeq(m[cols[i]].csi, m[cols[j]].csi)
                /\ \A j \in (i + 1) .. Len(cols) : ~RatGeq(m[cols[j]].csi, m[cols[i]].csi)
    IN  cols[k]
IdxMax(m, cols) ==
    LET k == CHOOSE i \in 1 .. Len(cols) :
                /\ \A j \in 1 .. Len(cols) : RatGeq(m[cols[i]].csi, m[cols[j]].csi)
                /\ \A j \in 1 .. (i - 1) : ~RatGeq(m[cols[j]].csi, m[cols[i]].csi)
    IN  cols[k]

\* Lines 249-259: the body of the selection loop for one group's metrics.
BestTriggerNoNone(m) ==
    IF filtered_columns(m) # <<>> THEN IdxMax(m, filtered_columns(m)) ELSE ScoredColumns[1]
BestTrigger(m) ==
    IF filtered_columns(m) # <<>> THEN IdxMax(m, filtered_columns(m)) ELSE None

Select ==
    /\ pc = "select" /\ error = "none"
    /\ best_trigger' = [key \in DOMAIN grouped_dfs |-> BestTrigger(grouped_dfs[key])]
    /\ pc' = "write"
    /\ UNCHANGED <<observed_data, ds, emptyGroups, error, fileIdx, lead_time, stationIdx,
                   observed_period, events, pivot_events_df, metrics_df, grouped_dfs,
                   results_df>>

\* Lines 262-271: one result row per key of best_trigger
ResultRow(key, trigger) ==
    [station_name |-> key[1],
     lead_time_category |-> key[2],
     threshold |-> key[3],
     best_trigger |-> trigger]

\* Lines 262-281: results_df is built and written as the triggers csv.
Write ==
    /\ pc = "write" /\ error = "none"
    /\ results_df' = {ResultRow(key, best_trigger[key]) : key \in DOMAIN best_trigger}
    /\ pc' = "done"
    /\ UNCHANGED <<observed_data, ds, emptyGroups, error, fileIdx, lead_time, stationIdx,
                   observed_period, events, pivot_events_df, metrics_df, grouped_dfs,
                   best_trigger>>

-----------------------------------------------------------------------------
Next ==
    \/ LookupObservedPeriod
    \/ ResolveStation
    \/ Pivot
    \/ Sweep
    \/ Categorize
    \/ Group
    \/ Score
    \/ Select
    \/ Write

Spec == Init /\ [][Next]_vars

-----------------------------------------------------------------------------
(* Properties.                                                             *)

Resolved == pc \notin {"lead", "station", "pivot"}
Swept == pc \notin {"lead", "station", "pivot", "sweep"}
Categorized == pc \notin {"lead", "station", "pivot", "sweep", "cut"}
Scored == pc \in {"select", "write", "done"}
Selected == pc \in {"write", "done"}

MemberColumns == {MemberName(m) : m \in ensemble_members}
RowKey(r) == <<r["station name"], r["lead time category"], r["threshold"]>>
Groups == DOMAIN grouped_dfs \cup {RowKey(r) : r \in metrics_df}

\* C1: in every row of the pivot table the probability of detection is the
\* number of ensemble members (all 11 of them) whose forecast event is true,
\* divided by 11; nothing else (the observed event) enters it.
C1_PodIsMemberFraction ==
    Resolved =>
        \A row \in pivot_events_df :
            row["probability of detection"]
                = <<Cardinality({c \in MemberColumns : row[c] = 1}), 11>>

\* the grid thresholds of a scored group that meet both feasibility bounds,
\* read off the metrics table: hit rate >= 1/2 and false alarm rate <= 1/2
FeasibleGrid(key) ==
    {j \in 1 .. NumThresholds :
        LET x == grouped_dfs[key][ThresholdColumns[j]]
        IN  /\ 2 * x.hit_rates[1] >= x.hit_rates[2]
            /\ 2 * x.false_alarm_rates[1] <= x.false_alarm_rates[2]}
CsiOf(key, j) == grouped_dfs[key][ThresholdColumns[j]].csi

ResultRowsOf(key) ==
    {r \in results_df : /\ r.station_name = key[1]
                        /\ r.lead_time_category = key[2]
                        /\ r.threshold = key[3]}

C4_AllBucketHoldsEveryRow ==
    pc = "score" =>
        \A r \in metrics_df :
            LET key == <<r["station name"], "0-46", r["threshold"]>>
            IN  /\ key \in DOMAIN grouped_dfs
                /\ r \in grouped_dfs[key]

\* the range each non-aggregate label names
NamedRange ==
    [l \in Range(labels) \ {"0-46"} |->
        CASE l = "0-5" -> 0 .. 5
          [] l = "6-10" -> 6 .. 10
          [] l = "11-15" -> 11 .. 15
          [] l = "16-20" -> 16 .. 20
          [] l = "21-25" -> 21 .. 25
          [] l = "26-30" -> 26 .. 30
          [] l = "31-35" -> 31 .. 35
          [] l = "36-40" -> 36 .. 40
          [] l = "41-46" -> 41 .. 46]

\* C5: every row's lead time category is the non-aggregate label whose named
\* range contains the row's lead time.
C5_CategoryIsNamedBin ==
    Categorized =>
        \A r \in metrics_df :
            /\ r["lead time category"] \in DOMAIN NamedRange
            /\ r["lead time"] \in NamedRange[r["lead time category"]]

\* C6: for every group and every column calculate_metrics scores, the four
\* contingency counts add up to the number of rows of the group.
C6_CountsSumToRows ==
    Scored =>
        \A key \in DOMAIN grouped_dfs :
            LET rows == Cardinality(GroupRows(metrics_df, key))
            IN  \A column \in Range(ScoredColumns) :
                    LET x == grouped_dfs[key][column]
                    IN  x.hits + x.false_alarms + x.misses + x.correct_rejections = rows

\* C7: a lead time whose forecasted date has no observed row is skipped: the
\* step raises no error, appends no event and the run goes on.
C7_MissingRowIsSkipped ==
    [][(pc = "lead" /\ error = "none" /\ MatchingRows = <<>>)
          => (error' = "none" /\ events' = events)]_vars

ObservedColumns ==
    UNION {DOMAIN observed_data[k].vals : k \in 1 .. Len(observed_data)}
MissingStations == {i \in 1 .. MaxStations : station_info[i].name \notin ObservedColumns}
StationIndex(name) == CHOOSE i \in 1 .. MaxStations : station_info[i].name = name

\* C8: with a metadata station that has no observed column the run never
\* leaves the resolution stage and ends there with an error: no event of that
\* station or of a later one, no later lead time or file, no table written.
C8_MissingStationAborts ==
    MissingStations # {} =>
        /\ pc \in {"lead", "station"}
        /\ fileIdx = 1 /\ lead_time = 0
        /\ \A i \in MissingStations : stationIdx <= i
        /\ \A k \in 1 .. Len(events) :
              \A i \in MissingStations : StationIndex(events[k].station) < i
        /\ results_df = {}
        /\ error # "none" \/ ENABLED Next

\* the run ended with KeyError at the second station, after the first
\* station's events were appended
C8_Witness ==
    /\ MissingStations # {}
    /\ error = "KeyError"
    /\ pc = "station"
    /\ stationIdx > 1
    /\ events # <<>>

ObservedPositives(key) == {r \in GroupRows(metrics_df, key) : r["observed event"]}

\* C9: every score of every group and scored column is defined (a non-zero
\* denominator in its quotient) and is 0 when the denominator of its formula
\* is 0; without observed positives hit rate and pss are 0; hit rate and
\* false alarm rate lie in [0, 1].
C9_ScoresDefined ==
    Scored =>
        \A key \in DOMAIN grouped_dfs :
            LET noPositives == ObservedPositives(key) = {}
            IN  \A column \in Range(ScoredColumns) :
                    LET x == grouped_dfs[key][column]
                        h == x.hits
                        fa == x.false_alarms
                        mi == x.misses
                        cr == x.correct_rejections
                    IN  /\ \A v \in {x.hit_rates, x.false_alarm_rates, x.csi, x.pss, x.f1} :
                              v[2] > 0
                        /\ h + mi = 0 => x.hit_rates[1] = 0
                        /\ h + fa = 0 => x.false_alarm_rates[1] = 0
                        /\ h + fa + mi = 0 => x.csi[1] = 0
                        /\ (h + mi) * (fa + cr) = 0 => x.pss[1] = 0
                        /\ h = 0 => x.f1[1] = 0
                        /\ noPositives => x.hit_rates[1] = 0 /\ x.pss[1] = 0
                        /\ 0 <= x.hit_rates[1] /\ x.hit_rates[1] <= x.hit_rates[2]
                        /\ 0 <= x.false_alarm_rates[1]
                        /\ x.false_alarm_rates[1] <= x.false_alarm_rates[2]

\* a scored group that has rows but no observed positive event
C9_Witness ==
    /\ pc = "done"
    /\ \E key \in DOMAIN grouped_dfs :
          /\ GroupRows(metrics_df, key) # {}
          /\ ObservedPositives(key) = {}

\* the 0/1 vectors of the threshold columns that occur in the swept table
SweptVectors == {[j \in 1 .. NumThresholds |-> r[ThresholdColumns[j]]] : r \in metrics_df}

\* C10: in every row, a threshold that triggers makes every lower threshold
\* of the grid trigger as well.
C10_SweepMonotone ==
    Swept =>
        \A v \in SweptVectors :
            \A j2 \in 1 .. NumThresholds :
                \A j1 \in 1 .. j2 : v[j2] = 1 => v[j1] = 1

\* a swept row that triggers at some thresholds and not at others
C10_Witness ==
    /\ pc = "cut"
    /\ \E r \in metrics_df :
          /\ r[ThresholdColumns[1]] = 1
          /\ r[ThresholdColumns[NumThresholds]] = 0

\* the denominators of all five scores of a scored column are non-zero
AllDenominatorsNonZero(x) ==
    /\ x.hits + x.misses > 0
    /\ x.hits + x.false_alarms > 0
    /\ x.hits + x.false_alarms + x.misses > 0
    /\ (x.hits + x.misses) * (x.false_alarms + x.correct_rejections) > 0
    /\ x.hits > 0

\* C11 as stated: where all score denominators are non-zero, the pss of the
\* metrics table equals its hit rate minus its false alarm rate.
C11_PssIsHitRateMinusFalseAlarmRate ==
    Scored =>
        \A key \in DOMAIN grouped_dfs :
            \A column \in Range(ScoredColumns) :
                LET x == grouped_dfs[key][column]
                    d == <<x.hit_rates[1] * x.false_alarm_rates[2]
                               - x.false_alarm_rates[1] * x.hit_rates[2],
                           x.hit_rates[2] * x.false_alarm_rates[2]>>
                IN  AllDenominatorsNonZero(x) => x.pss[1] * d[2] = d[1] * x.pss[2]

\* C11 amended: where all score denominators are non-zero, the pss of the
\* metrics table equals its hit rate minus false_alarms / (false_alarms +
\* correct_rejections), the probability of false detection, as exact quotients
\* of the contingency counts.
C11_PssIsHitRateMinusFalseDetection ==
    Scored =>
        \A key \in DOMAIN grouped_dfs :
            \A column \in Range(ScoredColumns) :
                LET x == grouped_dfs[key][column]
                    n == x.false_alarms + x.correct_rejections
                    d == <<x.hit_rates[1] * n - x.false_alarms * x.hit_rates[2],
                           x.hit_rates[2] * n>>
                IN  AllDenominatorsNonZero(x) => x.pss[1] * d[2] = d[1] * x.pss[2]

\* a scored column with all denominators non-zero, false alarms, and a false
\* alarm rate that differs from the probability of false detection
C11_Witness ==
    /\ pc = "done"
    /\ \E key \in DOMAIN grouped_dfs :
          \E column \in Range(ScoredColumns) :
              LET x == grouped_dfs[key][column]
              IN  /\ AllDenominatorsNonZero(x)
                  /\ x.false_alarms > 0
                  /\ x.hits # x.correct_rejections

\* a scored column of a group meets both feasibility bounds, read off the
\* metrics table
FeasibleColumn(key, column) ==
    LET x == grouped_dfs[key][column]
    IN  /\ 2 * x.hit_rates[1] >= x.hit_rates[2]
        /\ 2 * x.false_alarm_rates[1] <= x.false_alarm_rates[2]

\* C12: every selection is None or one of the 99 grid threshold columns; the
\* column 'lead time category' is scored by calculate_metrics, is never
\* feasible and never selected; a selected threshold has at least one hit and
\* a CSI above 0.
C12_SelectionIsGridThresholdWithHit ==
    /\ Scored =>
          \A key \in DOMAIN grouped_dfs :
              /\ "lead time category" \in DOMAIN grouped_dfs[key]
              /\ ~FeasibleColumn(key, "lead time category")
    /\ Selected =>
          \A key \in DOMAIN best_trigger :
              /\ best_trigger[key] # "lead time category"
              /\ best_trigger[key] = None \/ best_trigger[key] \in Range(ThresholdColumns)
              /\ best_trigger[key] # None =>
                    LET x == grouped_dfs[key][best_trigger[key]]
                    IN  /\ x.hits >= 1
                        /\ x.csi[1] > 0 /\ x.csi[2] > 0

\* a written selection of a grid threshold in a group whose rows hold as many
\* observed events as non-events, so that only the scoring of the category
\* column keeps it infeasible
C12_Witness ==
    /\ pc = "done"
    /\ \E key \in DOMAIN best_trigger :
          /\ best_trigger[key] \in Range(ThresholdColumns)
          /\ LET rows == GroupRows(metrics_df, key)
             IN  2 * Cardinality({r \in rows : r["observed event"]}) >= Cardinality(rows)

====
